---- MODULE Spec2Model ----
(***************************************************************************)
(* Model of src/src/index.ts: the Semgrep GitHub PR commenter action.      *)
(*                                                                         *)
(* run() is one linear pass: read the inputs, read and parse the report,   *)
(* pick the finding list, filter it by severity, render Markdown, post it  *)
(* on the pull request (or warn), and fail the action when findings        *)
(* remain.  Every thrown value lands in the single catch block.            *)
(*                                                                         *)
(* Representation of text.  A JavaScript string is a TLA+ string.  A       *)
(* multi-line document (the Markdown) is the sequence of its lines, i.e.   *)
(* the text split at the "\n" the code writes.  Two characters cannot be   *)
(* written inside a TLA+ string and are spelled out: the backtick is       *)
(* "<bt>" and the check-mark emoji U+2705 is "<U+2705>".                   *)
(***************************************************************************)
EXTENDS Integers, Sequences, FiniteSets, TLC

VARIABLES
    pc,                \* position of run() (src/src/index.ts:76-145)
    steps,             \* positions run() has executed so far, in order
    inputs,            \* the action inputs core.getInput reads
    pull_request,      \* github.context.payload.pull_request
    reportPath,        \* local of run(), line 78
    githubToken,       \* local of run(), line 79
    severityThreshold, \* local of run(), line 80
    reportContent,     \* local of run(), line 96: the text of the file
    parsed,            \* local of run(), line 97
    findings,          \* local of run(), line 100
    filteredFindings,  \* local of run(), line 103
    ref,               \* local of run(), line 111
    markdown,          \* local of run(), line 114
    thrown,            \* the value in flight to the catch block
    fileReads,         \* number of readFileSync calls made
    postAttempts,      \* number of createComment requests sent
    comments,          \* comments created on the hosting service
    warnings,          \* messages passed to core.warning
    failures           \* messages passed to core.setFailed

vars == <<pc, steps, inputs, pull_request, reportPath, githubToken,
          severityThreshold, reportContent, parsed, findings,
          filteredFindings, ref, markdown, thrown, fileReads, postAttempts,
          comments, warnings, failures>>

(***************************************************************************)
(* Bounds.                                                                 *)
(***************************************************************************)
MaxResults == 2   \* longest `results` array in a report
MaxErrors == 1    \* longest `errors` array in a report

(***************************************************************************)
(* Text the code writes.                                                   *)
(***************************************************************************)
BT == "<bt>"
FENCE == BT \o BT \o BT
CHECKMARK == "<U+2705>"

\* String.prototype.toUpperCase on the strings of the model: the strings
\* with a lower-case letter are listed, every other one has none.
ToUpperCase(s) ==
    CASE s = "high" -> "HIGH"
      [] s = "critical" -> "CRITICAL"
      [] s = "Medium" -> "MEDIUM"
      [] s = "info" -> "INFO"
      [] s = "low" -> "LOW"
      [] OTHER -> s

(***************************************************************************)
(* SemgrepFinding (lines 5-15) and the findings reports are made of.       *)
(***************************************************************************)
SemgrepFinding(id, path, line, col, message, severity, lines) ==
    [check_id |-> id, path |-> path,
     start |-> [line |-> line, col |-> col],
     end |-> [line |-> line, col |-> col + 4],
     extra |-> [message |-> message, severity |-> severity, lines |-> lines]]

FindingPool ==
    { SemgrepFinding("rule-1", "a.py", 10, 2, "bad", "HIGH", "x=1"),
      SemgrepFinding("rule-2", "b.js", 3, 1, "worse", "critical", "eval(y)"),
      SemgrepFinding("rule-3", "c.ts", 7, 5, "nit", "LOW", "let z"),
      SemgrepFinding("rule-4", "d.go", 1, 1, "hm", "WARNING", "go f()"),
      SemgrepFinding("rule-5", "e.rb", 22, 3, "meh", "Medium", "puts q"),
      SemgrepFinding("rule-6", "f.c", 4, 9, "odd", "", "gets(s)") }

\* The findings the `errors` arrays are made of.
ErrorPool ==
    { f \in FindingPool : f.check_id \in {"rule-1", "rule-4"} }

RECURSIVE SeqsUpTo(_, _)
SeqsUpTo(S, n) ==
    IF n = 0 THEN { <<>> }
    ELSE LET shorter == SeqsUpTo(S, n - 1)
         IN  shorter \cup { Append(s, x) : s \in shorter, x \in S }

\* An optional property of a parsed object: undefined, or an array.
Undefined == [defined |-> FALSE, value |-> <<>>]
Defined(v) == [defined |-> TRUE, value |-> v]

\* SemgrepResults (lines 17-20); isNull is the JSON document `null`.
SemgrepResults ==
    { [isNull |-> FALSE, results |-> r, errors |-> e] :
        r \in {Undefined} \cup { Defined(s) : s \in SeqsUpTo(FindingPool, MaxResults) },
        e \in {Undefined} \cup { Defined(s) : s \in SeqsUpTo(ErrorPool, MaxErrors) } }

NullDocument == [isNull |-> TRUE, results |-> Undefined, errors |-> Undefined]

\* What readFileSync can return: text that is not JSON, or a JSON document.
FileContents ==
    { [json |-> FALSE, value |-> NullDocument] }
    \cup { [json |-> TRUE, value |-> v] : v \in SemgrepResults \cup {NullDocument} }

NoContent == [json |-> FALSE, value |-> NullDocument]

\* Values of the inputs (core.getInput gives "" for an input not supplied).
ReportPaths == { "", "report.json" }
GithubTokens == { "", "ghs_token" }
ThresholdInputs == { "", "INFO", "Medium", "high", "ERROR" }

\* github.context.payload.pull_request: absent, or a pull request.
NoPullRequest == [defined |-> FALSE, number |-> 0, hasHeadRef |-> FALSE, headRef |-> ""]
PullRequests ==
    { NoPullRequest,
      [defined |-> TRUE, number |-> 7, hasHeadRef |-> TRUE, headRef |-> "feature"],
      [defined |-> TRUE, number |-> 9, hasHeadRef |-> FALSE, headRef |-> ""] }

\* github.context.repo
owner == "o"
repo == "r"

\* Thrown values: an Error with a message, or a value that is not an Error.
NoThrow == [raised |-> FALSE, isError |-> FALSE, message |-> ""]
Error(message) == [raised |-> TRUE, isError |-> TRUE, message |-> message]
NonError == [raised |-> TRUE, isError |-> FALSE, message |-> ""]

ENOENT == "ENOENT: no such file or directory, open 'report.json'"
EmptyPathENOENT == "ENOENT: no such file or directory, open ''"
SyntaxErrorMessage == "Unexpected token in JSON at position 0"
TypeErrorMessage == "Cannot read properties of null (reading 'results')"
RequestErrorMessage == "Resource not accessible by integration"

(***************************************************************************)
(* createMarkdown (lines 22-49).                                           *)
(***************************************************************************)
\* One loop iteration, lines 38-45: the lines one finding adds.
findingBlock(finding, o, r, rf) ==
    LET severity == ToUpperCase(finding.extra.severity)
    IN  << "### " \o severity \o ": " \o finding.check_id,
           "[**File:** " \o BT \o finding.path \o BT \o "](https://github.com/"
               \o o \o "/" \o r \o "/blob/" \o rf \o "/" \o finding.path
               \o "#L" \o ToString(finding.start.line) \o ")",
           "**Location:** Line " \o ToString(finding.start.line)
               \o ", Column " \o ToString(finding.start.col),
           "",
           finding.extra.message,
           "",
           FENCE,
           finding.extra.lines,
           FENCE,
           "" >>

\* The for loop of lines 37-46.
RECURSIVE findingBlocks(_, _, _, _)
findingBlocks(fs, o, r, rf) ==
    IF fs = <<>> THEN <<>>
    ELSE findingBlock(Head(fs), o, r, rf) \o findingBlocks(Tail(fs), o, r, rf)

createMarkdownDropsLast(fs, o, r, rf) ==
    << "# Semgrep Scan Results", "" >> \o
    IF Len(fs) = 0
    THEN << CHECKMARK \o " No issues found!" >>
    ELSE << "Found " \o ToString(Len(fs)) \o " issue(s):", "" >>
         \o findingBlocks(SubSeq(fs, 1, Len(fs) - 1), o, r, rf)

createMarkdown(fs, o, r, rf) ==
    << "# Semgrep Scan Results", "" >> \o
    IF Len(fs) = 0
    THEN << CHECKMARK \o " No issues found!" >>
    ELSE << "Found " \o ToString(Len(fs)) \o " issue(s):", "" >>
         \o findingBlocks(fs, o, r, rf)

(***************************************************************************)
(* severityPriority (lines 51-65).                                         *)
(***************************************************************************)
severityPriorityDefaultZero(sev) ==
    LET up == ToUpperCase(sev)
    IN  CASE up = "CRITICAL" -> 5
          [] up = "HIGH" -> 4
          [] up = "MEDIUM" -> 3
          [] up = "LOW" -> 2
          [] up = "INFO" -> 1
          [] OTHER -> 0

severityPriority(sev) ==
    LET up == ToUpperCase(sev)
    IN  CASE up = "CRITICAL" -> 5
          [] up = "HIGH" -> 4
          [] up = "MEDIUM" -> 3
          [] up = "LOW" -> 2
          [] OTHER -> 1

(***************************************************************************)
(* filterFindingsBySeverity (lines 67-74).                                 *)
(***************************************************************************)
\* The callback of line 72.
keepFindingStrict(f, threshold) ==
    severityPriority(f.extra.severity) > severityPriority(threshold)

keepFinding(f, threshold) ==
    severityPriority(f.extra.severity) >= severityPriority(threshold)

\* Array.prototype.filter with that callback: visit in index order, push
\* the elements the callback accepts.
RECURSIVE arrayFilter(_, _)
arrayFilter(arr, threshold) ==
    IF arr = <<>> THEN <<>>
    ELSE IF keepFinding(Head(arr), threshold)
         THEN <<Head(arr)>> \o arrayFilter(Tail(arr), threshold)
         ELSE arrayFilter(Tail(arr), threshold)

filterFindingsBySeveritySkipsFirst(fs, threshold) ==
    IF fs = <<>> THEN <<>> ELSE arrayFilter(Tail(fs), threshold)

filterFindingsBySeverity(fs, threshold) ==
    arrayFilter(fs, threshold)

(***************************************************************************)
(* run (lines 76-145), one action per statement that acts.                 *)
(***************************************************************************)
\* Truthiness of an optional array property: undefined is falsy and every
\* array, the empty one included, is truthy.
TruthyNonEmpty(v) == v.defined /\ v.value # <<>>

Truthy(v) == v.defined

\* The template literal of line 135.
thresholdFailureMessageUpper(n, threshold) ==
    "Found " \o ToString(n) \o " " \o ToUpperCase(threshold) \o "+ severity issue(s)."

thresholdFailureMessage(n, threshold) ==
    "Found " \o ToString(n) \o " " \o threshold \o "+ severity issue(s)."

Init ==
    /\ pc = "getInputs"
    /\ steps = <<>>
    /\ inputs \in [reportPath : ReportPaths, githubToken : GithubTokens,
                   severityThreshold : ThresholdInputs]
    /\ pull_request \in PullRequests
    /\ reportPath = ""
    /\ githubToken = ""
    /\ severityThreshold = ""
    /\ reportContent = NoContent
    /\ parsed = NullDocument
    /\ findings = <<>>
    /\ filteredFindings = <<>>
    /\ ref = ""
    /\ markdown = <<>>
    /\ thrown = NoThrow
    /\ fileReads = 0
    /\ postAttempts = 0
    /\ comments = <<>>
    /\ warnings = <<>>
    /\ failures = <<>>

\* Every action moves run() on and records the position it executed.
Goto(next) ==
    /\ pc' = next
    /\ steps' = Append(steps, pc)

\* Lines 78-80.
GetInputs ==
    /\ pc = "getInputs"
    /\ reportPath' = inputs.reportPath
    /\ githubToken' = inputs.githubToken
    /\ severityThreshold' =
          IF inputs.severityThreshold # "" THEN inputs.severityThreshold ELSE "INFO"
    /\ Goto("checkReportPath")
    /\ UNCHANGED <<inputs, pull_request, reportContent, parsed, findings,
                   filteredFindings, ref, markdown, thrown, fileReads,
                   postAttempts, comments, warnings, failures>>

\* Lines 83-86 without the return of line 85.
CheckReportPathNoReturn ==
    /\ pc = "checkReportPath"
    /\ failures' = IF reportPath = ""
                   THEN Append(failures, "Missing required input: 'report-path'")
                   ELSE failures
    /\ Goto("checkGithubToken")
    /\ UNCHANGED <<inputs, pull_request, reportPath, githubToken,
                   severityThreshold, reportContent, parsed, findings,
                   filteredFindings, ref, markdown, thrown, fileReads,
                   postAttempts, comments, warnings>>

\* Lines 83-86.
CheckReportPath ==
    /\ pc = "checkReportPath"
    /\ IF reportPath = ""
       THEN /\ failures' = Append(failures, "Missing required input: 'report-path'")
            /\ Goto("done")
       ELSE /\ failures' = failures
            /\ Goto("checkGithubToken")
    /\ UNCHANGED <<inputs, pull_request, reportPath, githubToken,
                   severityThreshold, reportContent, parsed, findings,
                   filteredFindings, ref, markdown, thrown, fileReads,
                   postAttempts, comments, warnings>>

\* Lines 87-90 without the return of line 89.
CheckGithubTokenNoReturn ==
    /\ pc = "checkGithubToken"
    /\ failures' = IF githubToken = ""
                   THEN Append(failures, "Missing required input: 'github-token'")
                   ELSE failures
    /\ Goto("readReport")
    /\ UNCHANGED <<inputs, pull_request, reportPath, githubToken,
                   severityThreshold, reportContent, parsed, findings,
                   filteredFindings, ref, markdown, thrown, fileReads,
                   postAttempts, comments, warnings>>

\* Lines 87-90.
CheckGithubToken ==
    /\ pc = "checkGithubToken"
    /\ IF githubToken = ""
       THEN /\ failures' = Append(failures, "Missing required input: 'github-token'")
            /\ Goto("done")
       ELSE /\ failures' = failures
            /\ Goto("readReport")
    /\ UNCHANGED <<inputs, pull_request, reportPath, githubToken,
                   severityThreshold, reportContent, parsed, findings,
                   filteredFindings, ref, markdown, thrown, fileReads,
                   postAttempts, comments, warnings>>

\* Line 96: readFileSync either throws or returns the text of the file.
ReadReport ==
    /\ pc = "readReport"
    /\ fileReads' = fileReads + 1
    /\ \/ /\ reportPath # ""
          /\ \E content \in FileContents :
                /\ reportContent' = content
                /\ thrown' = thrown
                /\ Goto("parseReport")
       \/ /\ reportContent' = reportContent
          /\ thrown' = Error(IF reportPath = "" THEN EmptyPathENOENT ELSE ENOENT)
          /\ Goto("catch")
    /\ UNCHANGED <<inputs, pull_request, reportPath, githubToken,
                   severityThreshold, parsed, findings, filteredFindings, ref,
                   markdown, postAttempts, comments, warnings, failures>>

\* Line 97: JSON.parse throws a SyntaxError on text that is not JSON.
ParseReport ==
    /\ pc = "parseReport"
    /\ IF reportContent.json
       THEN /\ parsed' = reportContent.value
            /\ thrown' = thrown
            /\ Goto("selectFindings")
       ELSE /\ parsed' = parsed
            /\ thrown' = Error(SyntaxErrorMessage)
            /\ Goto("catch")
    /\ UNCHANGED <<inputs, pull_request, reportPath, githubToken,
                   severityThreshold, reportContent, findings,
                   filteredFindings, ref, markdown, fileReads, postAttempts,
                   comments, warnings, failures>>

\* Line 100: parsed.results || parsed.errors || []
selectFindings(p) ==
    IF Truthy(p.results) THEN p.results.value
    ELSE IF Truthy(p.errors) THEN p.errors.value
    ELSE <<>>

\* Line 100; reading a property of null throws a TypeError.
SelectFindings ==
    /\ pc = "selectFindings"
    /\ IF parsed.isNull
       THEN /\ findings' = findings
            /\ thrown' = Error(TypeErrorMessage)
            /\ Goto("catch")
       ELSE /\ findings' = selectFindings(parsed)
            /\ thrown' = thrown
            /\ Goto("filterFindings")
    /\ UNCHANGED <<inputs, pull_request, reportPath, githubToken,
                   severityThreshold, reportContent, parsed, filteredFindings,
                   ref, markdown, fileReads, postAttempts, comments, warnings,
                   failures>>

\* Lines 103-106.
FilterFindings ==
    /\ pc = "filterFindings"
    /\ filteredFindings' = filterFindingsBySeverity(findings, severityThreshold)
    /\ Goto("readContext")
    /\ UNCHANGED <<inputs, pull_request, reportPath, githubToken,
                   severityThreshold, reportContent, parsed, findings, ref,
                   markdown, thrown, fileReads, postAttempts, comments,
                   warnings, failures>>

\* Line 111: context.payload.pull_request?.head?.ref ?? "main"
headRefOrMain(pr) ==
    IF pr.defined /\ pr.hasHeadRef THEN pr.headRef ELSE "main"

\* Lines 108-111.
ReadContext ==
    /\ pc = "readContext"
    /\ ref' = headRefOrMain(pull_request)
    /\ Goto("render")
    /\ UNCHANGED <<inputs, pull_request, reportPath, githubToken,
                   severityThreshold, reportContent, parsed, findings,
                   filteredFindings, markdown, thrown, fileReads,
                   postAttempts, comments, warnings, failures>>

\* Line 114.
Render ==
    /\ pc = "render"
    /\ markdown' = createMarkdown(filteredFindings, owner, repo, ref)
    /\ Goto("post")
    /\ UNCHANGED <<inputs, pull_request, reportPath, githubToken,
                   severityThreshold, reportContent, parsed, findings,
                   filteredFindings, ref, thrown, fileReads, postAttempts,
                   comments, warnings, failures>>

\* The argument of createComment, lines 120-125.
commentRequest(pr, body) ==
    [owner |-> owner, repo |-> repo, issue_number |-> pr.number, body |-> body]

\* Lines 117-125: the awaited request creates the comment, or rejects with
\* a request Error, or with a value that is not an Error.
PostComment ==
    /\ pc = "post"
    /\ pull_request.defined
    /\ postAttempts' = postAttempts + 1
    /\ \/ /\ comments' = Append(comments, commentRequest(pull_request, markdown))
          /\ thrown' = thrown
          /\ Goto("thresholdCheck")
       \/ /\ comments' = comments
          /\ thrown' \in { Error(RequestErrorMessage), NonError }
          /\ Goto("catch")
    /\ UNCHANGED <<inputs, pull_request, reportPath, githubToken,
                   severityThreshold, reportContent, parsed, findings,
                   filteredFindings, ref, markdown, fileReads, warnings,
                   failures>>

NoPullRequestWarning ==
    "No pull request context - this action only comments if triggered on a PR."

\* Lines 126-130 reporting through core.setFailed.
WarnNoPullRequestFails ==
    /\ pc = "post"
    /\ ~pull_request.defined
    /\ failures' = Append(failures, NoPullRequestWarning)
    /\ Goto("thresholdCheck")
    /\ UNCHANGED <<inputs, pull_request, reportPath, githubToken,
                   severityThreshold, reportContent, parsed, findings,
                   filteredFindings, ref, markdown, thrown, fileReads,
                   postAttempts, comments, warnings>>

\* Lines 126-130.
WarnNoPullRequest ==
    /\ pc = "post"
    /\ ~pull_request.defined
    /\ warnings' = Append(warnings, NoPullRequestWarning)
    /\ Goto("thresholdCheck")
    /\ UNCHANGED <<inputs, pull_request, reportPath, githubToken,
                   severityThreshold, reportContent, parsed, findings,
                   filteredFindings, ref, markdown, thrown, fileReads,
                   postAttempts, comments, failures>>

\* Lines 133-137.
ThresholdCheck ==
    /\ pc = "thresholdCheck"
    /\ failures' =
          IF Len(filteredFindings) > 0
          THEN Append(failures,
                      thresholdFailureMessage(Len(filteredFindings), severityThreshold))
          ELSE failures
    /\ Goto("done")
    /\ UNCHANGED <<inputs, pull_request, reportPath, githubToken,
                   severityThreshold, reportContent, parsed, findings,
                   filteredFindings, ref, markdown, thrown, fileReads,
                   postAttempts, comments, warnings>>

\* Lines 139-143: the message the catch block reports.
catchMessageInverted(error) ==
    IF ~error.isError THEN error.message ELSE "An unknown error occurred."

catchMessage(error) ==
    IF error.isError THEN error.message ELSE "An unknown error occurred."

\* Lines 138-144.
Catch ==
    /\ pc = "catch"
    /\ failures' = Append(failures, catchMessage(thrown))
    /\ thrown' = NoThrow
    /\ Goto("done")
    /\ UNCHANGED <<inputs, pull_request, reportPath, githubToken,
                   severityThreshold, reportContent, parsed, findings,
                   filteredFindings, ref, markdown, fileReads, postAttempts,
                   comments, warnings>>

Next ==
    \/ GetInputs
    \/ CheckReportPath
    \/ CheckGithubToken
    \/ ReadReport
    \/ ParseReport
    \/ SelectFindings
    \/ FilterFindings
    \/ ReadContext
    \/ Render
    \/ PostComment
    \/ WarnNoPullRequest
    \/ ThresholdCheck
    \/ Catch

Spec == Init /\ [][Next]_vars

TypeOK ==
    /\ pc \in {"getInputs", "checkReportPath", "checkGithubToken", "readReport",
               "parseReport", "selectFindings", "filterFindings", "readContext",
               "render", "post", "thresholdCheck", "catch", "done"}
    /\ \A i \in 1..Len(findings) : findings[i] \in FindingPool
    /\ Len(filteredFindings) <= Len(findings)
    /\ fileReads \in 0..1
    /\ postAttempts \in 0..1

(***************************************************************************)
(* Vocabulary of the properties.                                           *)
(***************************************************************************)
\* run() has executed the statement at position p.
Executed(p) == \E i \in DOMAIN steps : steps[i] = p

\* The statement at position p threw: the catch block came right after it.
Threw(p) ==
    \/ \E i \in 1..(Len(steps) - 1) : steps[i] = p /\ steps[i + 1] = "catch"
    \/ pc = "catch" /\ steps # <<>> /\ steps[Len(steps)] = p

MissingReportPath == "Missing required input: 'report-path'"
MissingGithubToken == "Missing required input: 'github-token'"
UnknownError == "An unknown error occurred."

\* The rank the specification gives a severity string, label by label.
Rank(sev) ==
    IF sev \in {"CRITICAL", "critical"} THEN 5
    ELSE IF sev \in {"HIGH", "high"} THEN 4
    ELSE IF sev \in {"MEDIUM", "Medium"} THEN 3
    ELSE IF sev \in {"LOW", "low"} THEN 2
    ELSE 1

\* Threshold strings the filter is examined with.
ThresholdStrings ==
    ThresholdInputs \cup {"CRITICAL", "HIGH", "LOW", "info", "low", "WARNING"}

\* Positions of fs whose finding meets the threshold t.
Admitted(fs, t) == { i \in DOMAIN fs : Rank(fs[i].extra.severity) >= Rank(t) }

\* out is the subsequence of fs at the admitted positions, in order.
IsAdmittedSubsequence(out, fs, t) ==
    /\ Len(out) = Cardinality(Admitted(fs, t))
    /\ \A k \in 1..Len(out) :
          \E i \in Admitted(fs, t) :
             /\ Cardinality({ j \in Admitted(fs, t) : j <= i }) = k
             /\ out[k] = fs[i]

\* The threshold string in use during the run.
ThresholdInUse ==
    IF inputs.severityThreshold = "" THEN "INFO" ELSE inputs.severityThreshold

\* The createComment request was sent and rejected.
PostFailed == Threw("post")

(***************************************************************************)
(* C1 as stated: in every run that has both inputs and reads, parses and   *)
(* filters the report, the run ends with the single failure                *)
(* "Found N T+ severity issue(s)." when N >= 1 findings were admitted and  *)
(* with no failure when N = 0, whatever the outcome of posting the         *)
(* comment.  The code does not do this when the post is rejected.          *)
(***************************************************************************)
C1_AsStated ==
    (pc = "done" /\ Executed("filterFindings")) =>
        IF Cardinality(Admitted(findings, ThresholdInUse)) > 0
        THEN failures =
               << "Found " \o ToString(Cardinality(Admitted(findings, ThresholdInUse)))
                  \o " " \o ThresholdInUse \o "+ severity issue(s)." >>
        ELSE failures = <<>>

(***************************************************************************)
(* C1 amended: in every run that has both inputs and reads, parses and     *)
(* filters the report, if the comment post is not rejected (it succeeds,   *)
(* or there is no pull request) the run ends with the single failure       *)
(* "Found N T+ severity issue(s)." when N >= 1 and with no failure when    *)
(* N = 0; if the post is rejected the run ends with exactly one failure,   *)
(* carrying the rejection's message or the generic message, and no count   *)
(* failure, whatever N is.                                                 *)
(***************************************************************************)
C1_Amended ==
    (pc = "done" /\ Executed("filterFindings")) =>
        IF PostFailed
        THEN failures \in { <<RequestErrorMessage>>, <<UnknownError>> }
        ELSE IF Cardinality(Admitted(findings, ThresholdInUse)) > 0
        THEN failures =
               << "Found " \o ToString(Cardinality(Admitted(findings, ThresholdInUse)))
                  \o " " \o ThresholdInUse \o "+ severity issue(s)." >>
        ELSE failures = <<>>

\* A run with a pull request that posted its comment and then failed on two
\* admitted findings out of more, with a threshold given in lower case.
C1_Witness ==
    /\ pc = "done"
    /\ inputs.severityThreshold = "high"
    /\ Len(findings) > Len(filteredFindings)
    /\ Len(comments) = 1
    /\ failures = << "Found 1 high+ severity issue(s)." >>

(***************************************************************************)
(* C2 as stated: in every run, a comment is posted only with a pull        *)
(* request, and with one exactly one comment is posted, on that pull       *)
(* request, with the rendered Markdown as body; in every run without a     *)
(* pull request no comment is posted, the warning is emitted, and with     *)
(* zero filtered findings the run succeeds.  Runs that stop before the     *)
(* posting step post nothing and emit no warning, and a rejected request   *)
(* posts nothing.                                                          *)
(***************************************************************************)
C2_AsStated ==
    pc = "done" =>
        /\ comments # <<>> => pull_request.defined
        /\ pull_request.defined =>
              comments = << [owner |-> "o", repo |-> "r",
                             issue_number |-> pull_request.number,
                             body |-> markdown] >>
        /\ ~pull_request.defined =>
              /\ comments = <<>>
              /\ warnings = <<NoPullRequestWarning>>
              /\ (Len(filteredFindings) = 0 => failures = <<>>)

(***************************************************************************)
(* C2 amended: in every run that reaches the posting step (both inputs     *)
(* present, report read, parsed, filtered and rendered): with a pull       *)
(* request exactly one comment request is sent and no warning is emitted,  *)
(* and a comment that is posted is the only one, is on that pull request   *)
(* and has the rendered Markdown as body (none is posted when the request  *)
(* is rejected); without a pull request no request is sent, no comment is  *)
(* posted, exactly one warning is emitted, and with zero filtered findings *)
(* the run succeeds.  A run that stops before the posting step posts       *)
(* nothing and emits no warning.                                           *)
(***************************************************************************)
C2_Amended ==
    pc = "done" =>
        /\ comments # <<>> =>
              /\ pull_request.defined
              /\ comments = << [owner |-> "o", repo |-> "r",
                                issue_number |-> pull_request.number,
                                body |-> markdown] >>
              /\ Len(markdown) >= 3
        /\ (Executed("post") /\ pull_request.defined) =>
              /\ postAttempts = 1
              /\ warnings = <<>>
              /\ (comments = <<>> <=> PostFailed)
        /\ (Executed("post") /\ ~pull_request.defined) =>
              /\ postAttempts = 0
              /\ comments = <<>>
              /\ warnings = <<NoPullRequestWarning>>
              /\ (Len(filteredFindings) = 0 => failures = <<>>)
        /\ ~Executed("post") =>
              /\ postAttempts = 0
              /\ comments = <<>>
              /\ warnings = <<>>

\* A run without a pull request over a report with findings none of which
\* is admitted: warned, nothing posted, succeeded.
C2_Witness ==
    /\ pc = "done"
    /\ ~pull_request.defined
    /\ findings # <<>>
    /\ filteredFindings = <<>>
    /\ warnings = <<NoPullRequestWarning>>
    /\ comments = <<>>
    /\ failures = <<>>

(***************************************************************************)
(* C3: when the report path or the credential is missing, no report        *)
(* processing ever happens (the file is not read, nothing is parsed,       *)
(* filtered or rendered, no comment request is sent, no warning is         *)
(* emitted), and the run ends with exactly one failure, naming the         *)
(* missing input.                                                          *)
(***************************************************************************)
C3_MissingInputStops ==
    (inputs.reportPath = "" \/ inputs.githubToken = "") =>
        /\ fileReads = 0
        /\ ~Executed("readReport") /\ ~Executed("parseReport")
        /\ ~Executed("selectFindings") /\ ~Executed("filterFindings")
        /\ ~Executed("render") /\ ~Executed("post")
        /\ findings = <<>> /\ filteredFindings = <<>> /\ markdown = <<>>
        /\ postAttempts = 0 /\ comments = <<>> /\ warnings = <<>>
        /\ pc \notin {"readReport", "parseReport", "selectFindings",
                      "filterFindings", "readContext", "render", "post",
                      "thresholdCheck", "catch"}
        /\ pc = "done" =>
              failures = << IF inputs.reportPath = "" THEN MissingReportPath
                            ELSE MissingGithubToken >>

\* A finished run with a report path and no credential.
C3_Witness ==
    /\ pc = "done"
    /\ inputs.reportPath # ""
    /\ inputs.githubToken = ""
    /\ failures = <<MissingGithubToken>>

(***************************************************************************)
(* C4: when reading the report throws, or its text is not JSON, the run    *)
(* ends with exactly one failure, carrying the error's message, the file   *)
(* was read exactly once, nothing was filtered or rendered, no comment     *)
(* request was sent and no count failure was reported.                     *)
(***************************************************************************)
C4_InputErrorAborts ==
    (pc = "done" /\ (Threw("readReport") \/ Threw("parseReport"))) =>
        /\ failures = << IF Threw("readReport") THEN ENOENT ELSE SyntaxErrorMessage >>
        /\ fileReads = 1
        /\ Len(steps) = IF Threw("readReport") THEN 5 ELSE 6
        /\ ~Executed("filterFindings") /\ ~Executed("render")
        /\ ~Executed("thresholdCheck")
        /\ postAttempts = 0 /\ comments = <<>> /\ warnings = <<>>

\* A finished run whose report file held text that is not JSON.
C4_Witness ==
    /\ pc = "done"
    /\ Threw("parseReport")
    /\ fileReads = 1
    /\ failures = <<SyntaxErrorMessage>>

C6_FilterIsAdmittedSubsequence ==
    /\ pc = "filterFindings" =>
          \A t \in ThresholdStrings :
             IsAdmittedSubsequence(filterFindingsBySeverity(findings, t), findings, t)
    /\ Executed("filterFindings") =>
          IsAdmittedSubsequence(filteredFindings, findings, ThresholdInUse)

\* The scenario of the specification: a LOW and a CRITICAL finding filtered
\* at HIGH leave only the CRITICAL one.
C6_Witness ==
    /\ Executed("filterFindings")
    /\ Len(findings) = 2
    /\ findings[1].extra.severity = "LOW"
    /\ findings[2].extra.severity = "critical"
    /\ severityThreshold = "high"
    /\ filteredFindings = << findings[2] >>

(***************************************************************************)
(* C7: filtering is idempotent: filtering the filtered list of the run     *)
(* again at the same threshold returns it unchanged, and so does           *)
(* filtering twice at any threshold string.                                *)
(***************************************************************************)
C7_FilterIdempotent ==
    /\ Executed("filterFindings") =>
          filterFindingsBySeverity(filteredFindings, severityThreshold) = filteredFindings
    /\ pc = "filterFindings" =>
          \A t \in ThresholdStrings :
             filterFindingsBySeverity(filterFindingsBySeverity(findings, t), t)
                = filterFindingsBySeverity(findings, t)

\* A run whose filter dropped one finding and kept the other.
C7_Witness ==
    /\ Executed("filterFindings")
    /\ Len(filteredFindings) = 1
    /\ Len(findings) = 2

(***************************************************************************)
(* C8: filtering at "INFO" is the identity; a run given no threshold uses  *)
(* "INFO"; a threshold string that is none of the five labels in any       *)
(* letter case also admits every finding, whatever its severity string.    *)
(***************************************************************************)
C8_RankOneThresholdIsIdentity ==
    /\ pc = "filterFindings" =>
          /\ filterFindingsBySeverity(findings, "INFO") = findings
          /\ \A t \in ThresholdStrings :
                t \notin {"CRITICAL", "critical", "HIGH", "high", "MEDIUM", "Medium",
                          "LOW", "low"}
                   => filterFindingsBySeverity(findings, t) = findings
    /\ (Executed("getInputs") /\ inputs.severityThreshold = "") =>
          severityThreshold = "INFO"
    /\ (Executed("filterFindings") /\ inputs.severityThreshold \in {"", "INFO", "ERROR"}) =>
          filteredFindings = findings

\* A run given no threshold, over findings with an unknown and with an
\* empty severity string, which kept both.
C8_Witness ==
    /\ Executed("filterFindings")
    /\ inputs.severityThreshold = ""
    /\ Len(findings) = 2
    /\ findings[1].extra.severity = "WARNING"
    /\ findings[2].extra.severity = ""
    /\ filteredFindings = findings

(***************************************************************************)
(* C9: the rendered document always starts with the header line and a      *)
(* blank line; for no findings it continues with the success line and      *)
(* nothing else; for N >= 1 findings it continues with the count line      *)
(* "Found N issue(s):", N being the length of the list rendered, a blank   *)
(* line, and exactly one ten-line block per finding, the i-th block being  *)
(* that of the i-th finding: its heading, link, location, message and      *)
(* fenced snippet.                                                         *)
(***************************************************************************)
C9_RenderedDocument ==
    Executed("render") =>
        /\ Len(markdown) >= 3
        /\ markdown[1] = "# Semgrep Scan Results"
        /\ markdown[2] = ""
        /\ filteredFindings = <<>> =>
              markdown = << "# Semgrep Scan Results", "", "<U+2705> No issues found!" >>
        /\ filteredFindings # <<>> =>
              /\ markdown[3] = "Found " \o ToString(Len(filteredFindings)) \o " issue(s):"
              /\ markdown[4] = ""
              /\ Len(markdown) = 4 + 10 * Len(filteredFindings)
              /\ \A i \in 1..Len(filteredFindings) :
                    LET f == filteredFindings[i]
                        at == 4 + 10 * (i - 1)
                        label == IF Rank(f.extra.severity) = 5 THEN "CRITICAL"
                                 ELSE IF Rank(f.extra.severity) = 4 THEN "HIGH"
                                 ELSE IF Rank(f.extra.severity) = 3 THEN "MEDIUM"
                                 ELSE IF Rank(f.extra.severity) = 2 THEN "LOW"
                                 ELSE f.extra.severity
                    IN  /\ markdown[at + 1] = "### " \o label \o ": " \o f.check_id
                        /\ markdown[at + 2] =
                              "[**File:** <bt>" \o f.path \o "<bt>](https://github.com/o/r/blob/"
                              \o ref \o "/" \o f.path \o "#L" \o ToString(f.start.line) \o ")"
                        /\ markdown[at + 3] =
                              "**Location:** Line " \o ToString(f.start.line)
                              \o ", Column " \o ToString(f.start.col)
                        /\ markdown[at + 4] = ""
                        /\ markdown[at + 5] = f.extra.message
                        /\ markdown[at + 6] = ""
                        /\ markdown[at + 7] = "<bt><bt><bt>"
                        /\ markdown[at + 8] = f.extra.lines
                        /\ markdown[at + 9] = "<bt><bt><bt>"
                        /\ markdown[at + 10] = ""

\* Two findings rendered in report order, the less severe one first, on a
\* run without a pull request head reference.
C9_Witness ==
    /\ Executed("render")
    /\ Len(markdown) = 24
    /\ markdown[3] = "Found 2 issue(s):"
    /\ markdown[5] = "### LOW: rule-3"
    /\ markdown[15] = "### HIGH: rule-1"
    /\ markdown[16] = "[**File:** <bt>a.py<bt>](https://github.com/o/r/blob/main/a.py#L10)"
    /\ markdown[17] = "**Location:** Line 10, Column 2"

(***************************************************************************)
(* C10: in every run a failure is reported at most once and a comment is   *)
(* posted at most once; when both happened the comment renders as many     *)
(* findings as the failure message counts; and no comment is posted in a   *)
(* step taken after a failure was reported.                                *)
(***************************************************************************)
C10_AtMostOnceAndOrdered ==
    /\ [](/\ Len(failures) <= 1
          /\ Len(comments) <= 1
          /\ postAttempts <= 1
          /\ (failures # <<>> /\ comments # <<>>) =>
                \E n \in 1..Len(findings) :
                   /\ failures[1] = "Found " \o ToString(n) \o " " \o ThresholdInUse
                                       \o "+ severity issue(s)."
                   /\ comments[1].body[3] = "Found " \o ToString(n) \o " issue(s):"
                   /\ Len(comments[1].body) = 4 + 10 * n)
    /\ [][failures # <<>> => (comments' = comments /\ postAttempts' = postAttempts)]_vars

\* A finished run that posted its comment and then reported its failure.
C10_Witness ==
    /\ pc = "done"
    /\ Len(comments) = 1
    /\ Len(failures) = 1
    /\ Len(filteredFindings) = 2
    /\ steps[Len(steps)] = "thresholdCheck"
    /\ steps[Len(steps) - 1] = "post"

====
